---- MODULE Spec2Model ----
(***************************************************************************)
(* ATTiny relay bypass controller (src/main.c).                            *)
(*                                                                         *)
(* The timer-1 compare interrupt (1 ms tick) samples the foot switch and   *)
(* runs the whole switching logic; the main loop copies the resulting      *)
(* flags to the output pins and the PWM compare register.                  *)
(***************************************************************************)
EXTENDS Integers, Naturals, Sequences, FiniteSets, TLC

\* ---------------------------------------------------------------------
\* Program constants (src/main.c:28-29, 101, 107)
\* ---------------------------------------------------------------------
MOMENTARY_DELAY == 400
LATCHING_TIME == 3
MAX_BRIGHTNESS == 254
MIN_BRIGHTNESS == 10

\* ---------------------------------------------------------------------
\* Bounds of the switch-input scenarios
\* ---------------------------------------------------------------------
PrefixTicks == 6   \* free samples before a hold that starts from Idle
TapTicks == 2      \* free samples before a hold that starts from any state
QuietMax == 403    \* released samples between the free samples and the hold
MaxHold == 805     \* pressed samples of a hold that starts from Idle
AnyHold == 404     \* pressed samples of a hold that starts from any state
PostTicks == 5     \* released samples after the hold
PreemptTicks == 8  \* ticks that may interrupt the main loop
WaveTicks == 1300  \* ticks without a press edge that turns the pedal on
MaxPeriod == 600   \* where the count of ticks since the top turn stops

VARIABLES
    state,               \* flag byte: bits SP, SS, LS, PO, TS
    brightness_control,  \* current shimmer brightness
    brighness_up,        \* 1 while the brightness ramp is rising
    pulse_counter,       \* ticks of the current latching pulse
    intr_count,          \* free-running counter for the momentary delay
    PORTB,               \* output pins PB1, PB3, PB4, PB5
    OCR0A,               \* PWM compare register of the blinky LED
    \* history of the run, not program state:
    phase,               \* part of the input scenario: free, quiet, hold, post
    n,                   \* samples taken in the current phase
    run,                 \* pressed samples of the scenario's hold so far
    since_arm,           \* ticks since SP was last armed, saturating
    fresh,               \* TRUE when no tick fired since the pass began (line 149)
    high,                \* consecutive ticks that ended with SP set, saturating
    pc,                  \* line of main() the loop executes next
    cands,               \* renderings of the states the current pass could see
    cycle                \* ticks since the wave last turned at the top, -1: never

memvars == <<state, brightness_control, brighness_up, pulse_counter, intr_count>>
outvars == <<PORTB, OCR0A>>
vars == <<state, brightness_control, brighness_up, pulse_counter, intr_count,
          PORTB, OCR0A, phase, n, run, since_arm, fresh, high, pc, cands, cycle>>
loopvars == <<pc, cands, cycle>>

\* The memory the interrupt handler reads and writes, as one record.
Mem == [state |-> state, brightness_control |-> brightness_control,
        brighness_up |-> brighness_up, pulse_counter |-> pulse_counter,
        intr_count |-> intr_count]

\* char state = 0b00000: every flag clear.
StateZero == [SP |-> FALSE, SS |-> FALSE, LS |-> FALSE, PO |-> FALSE, TS |-> FALSE]

\* ---------------------------------------------------------------------
\* ISR(TIMER1_COMPA_vect), one operator per block of the handler.
\* Each takes the memory record m and returns the memory after the block.
\* ---------------------------------------------------------------------

\* TimerStep with the comparison one count late
TimerStep_Late(m) ==
    IF m.intr_count = MOMENTARY_DELAY + 1
    THEN [m EXCEPT !.state.TS = TRUE, !.intr_count = 0]
    ELSE [m EXCEPT !.intr_count = m.intr_count + 1]

\* TimerStep flipping the Timer State bit instead of setting it
TimerStep_Toggle(m) ==
    IF m.intr_count = MOMENTARY_DELAY
    THEN [m EXCEPT !.state.TS = ~m.state.TS, !.intr_count = 0]
    ELSE [m EXCEPT !.intr_count = m.intr_count + 1]

\* lines 60-66: count for the momentary delay
TimerStep(m) ==
    IF m.intr_count = MOMENTARY_DELAY
    THEN [m EXCEPT !.state.TS = TRUE, !.intr_count = 0]
    ELSE [m EXCEPT !.intr_count = m.intr_count + 1]

\* lines 68-73: last state bit := current switch state bit
EdgeSnapshot(m) == [m EXCEPT !.state.LS = m.state.SS]

\* PressPath without "brightness_control = 0"
PressPath_NoBrightnessReset(m) ==
    LET m1 == [m EXCEPT !.state.SS = TRUE] IN
    IF ~m1.state.LS
    THEN IF ~m1.state.PO
         THEN [m1 EXCEPT !.intr_count = 0,
                         !.state.PO = TRUE,
                         !.state.SP = TRUE,
                         !.state.TS = FALSE]
         ELSE [m1 EXCEPT !.state.PO = FALSE,
                         !.state.SP = TRUE]
    ELSE m1

\* PressPath without "intr_count = 0"
PressPath_NoCounterReset(m) ==
    LET m1 == [m EXCEPT !.state.SS = TRUE] IN
    IF ~m1.state.LS
    THEN IF ~m1.state.PO
         THEN [m1 EXCEPT !.state.PO = TRUE,
                         !.state.SP = TRUE,
                         !.brightness_control = 0,
                         !.state.TS = FALSE]
         ELSE [m1 EXCEPT !.state.PO = FALSE,
                         !.state.SP = TRUE]
    ELSE m1

\* lines 77-90: switch pin reads low (pressed).  TCNT0 = 0 (line 85) restarts
\* the PWM timer's count, which no flag, counter or pin level depends on.
PressPath(m) ==
    LET m1 == [m EXCEPT !.state.SS = TRUE] IN
    IF ~m1.state.LS
    THEN IF ~m1.state.PO
         THEN [m1 EXCEPT !.intr_count = 0,
                         !.state.PO = TRUE,
                         !.state.SP = TRUE,
                         !.brightness_control = 0,
                         !.state.TS = FALSE]
         ELSE [m1 EXCEPT !.state.PO = FALSE,
                         !.state.SP = TRUE]
    ELSE m1

\* ReleasePath that also restarts the delay counter and clears the Timer
\* State bit
ReleasePath_Reset(m) ==
    LET m1 == [m EXCEPT !.state.SS = FALSE] IN
    IF m1.state.LS /\ m1.state.PO /\ m1.state.TS
    THEN [m1 EXCEPT !.state.PO = FALSE, !.state.SP = TRUE,
                    !.state.TS = FALSE, !.intr_count = 0]
    ELSE [m1 EXCEPT !.state.TS = FALSE, !.intr_count = 0]

\* ReleasePath without the test of the Last State bit
ReleasePath_NoEdge(m) ==
    LET m1 == [m EXCEPT !.state.SS = FALSE] IN
    IF m1.state.PO /\ m1.state.TS
    THEN [m1 EXCEPT !.state.PO = FALSE, !.state.SP = TRUE]
    ELSE m1

\* ReleasePath without the test of the Timer State bit
ReleasePath_NoTimer(m) ==
    LET m1 == [m EXCEPT !.state.SS = FALSE] IN
    IF m1.state.LS /\ m1.state.PO
    THEN [m1 EXCEPT !.state.PO = FALSE, !.state.SP = TRUE]
    ELSE m1

\* lines 91-97: switch pin reads high (released)
ReleasePath(m) ==
    LET m1 == [m EXCEPT !.state.SS = FALSE] IN
    IF m1.state.LS /\ m1.state.PO /\ m1.state.TS
    THEN [m1 EXCEPT !.state.PO = FALSE, !.state.SP = TRUE]
    ELSE m1

\* lines 76-97: the FSM; pressed <=> (PINB & (1 << PINB2)) == 0
FSM(m, pressed) == IF pressed THEN PressPath(m) ELSE ReleasePath(m)

\* Shimmer with "<=" in the rising test
Shimmer_Over(m) ==
    IF m.brighness_up # 0
    THEN IF m.brightness_control <= MAX_BRIGHTNESS
         THEN [m EXCEPT !.brightness_control = (m.brightness_control + 1) % 65536]
         ELSE [m EXCEPT !.brighness_up = 0]
    ELSE IF m.brightness_control > MIN_BRIGHTNESS
         THEN [m EXCEPT !.brightness_control = m.brightness_control - 1]
         ELSE [m EXCEPT !.brighness_up = 1]

\* Shimmer that turns and steps in the same tick
Shimmer_NoDwell(m) ==
    IF m.brighness_up # 0
    THEN IF m.brightness_control < MAX_BRIGHTNESS - 1
         THEN [m EXCEPT !.brightness_control = (m.brightness_control + 1) % 65536]
         ELSE [m EXCEPT !.brightness_control = MAX_BRIGHTNESS, !.brighness_up = 0]
    ELSE IF m.brightness_control > MIN_BRIGHTNESS + 1
         THEN [m EXCEPT !.brightness_control = m.brightness_control - 1]
         ELSE [m EXCEPT !.brightness_control = MIN_BRIGHTNESS, !.brighness_up = 1]

\* lines 99-112: triangle wave of the shimmer brightness
Shimmer(m) ==
    IF m.brighness_up # 0
    THEN IF m.brightness_control < MAX_BRIGHTNESS
         THEN [m EXCEPT !.brightness_control = (m.brightness_control + 1) % 65536]
         ELSE [m EXCEPT !.brighness_up = 0]
    ELSE IF m.brightness_control > MIN_BRIGHTNESS
         THEN [m EXCEPT !.brightness_control = m.brightness_control - 1]
         ELSE [m EXCEPT !.brighness_up = 1]

\* PulseStep that resets the counter without clearing SP
PulseStep_KeepSP(m) ==
    IF m.state.SP /\ m.pulse_counter < LATCHING_TIME
    THEN [m EXCEPT !.pulse_counter = m.pulse_counter + 1]
    ELSE [m EXCEPT !.pulse_counter = 0]

\* PulseStep with "<=" in the counter test
PulseStep_Long(m) ==
    IF m.state.SP /\ m.pulse_counter <= LATCHING_TIME
    THEN [m EXCEPT !.pulse_counter = m.pulse_counter + 1]
    ELSE [m EXCEPT !.pulse_counter = 0, !.state.SP = FALSE]

\* lines 114-120: latching pulse counter
PulseStep(m) ==
    IF m.state.SP /\ m.pulse_counter < LATCHING_TIME
    THEN [m EXCEPT !.pulse_counter = m.pulse_counter + 1]
    ELSE [m EXCEPT !.pulse_counter = 0, !.state.SP = FALSE]

\* lines 59-121: the whole handler
ISR(m, pressed) ==
    PulseStep(Shimmer(FSM(EdgeSnapshot(TimerStep(m)), pressed)))

\* ---------------------------------------------------------------------
\* main(): the rendering loop, lines 148-170
\* ---------------------------------------------------------------------

\* lines 149-162: relay pins, static LED, blinky LED brightness
RenderPedal(m, out) ==
    IF m.state.PO
    THEN [out EXCEPT !.PORTB.PB3 = 1, !.PORTB.PB1 = 1, !.PORTB.PB5 = 0,
                     !.OCR0A = IF m.state.SS THEN m.brightness_control % 256
                                             ELSE 255]
    ELSE [out EXCEPT !.OCR0A = 0, !.PORTB.PB3 = 0, !.PORTB.PB1 = 0,
                     !.PORTB.PB5 = 1]

\* lines 165-169: latching relay pin
RenderPulse(m, out) ==
    IF m.pulse_counter # 0
    THEN [out EXCEPT !.PORTB.PB4 = 1]
    ELSE [out EXCEPT !.PORTB.PB4 = 0]

\* one pass of the while(1) body with no interrupt in between
RenderPass(m, out) == RenderPulse(m, RenderPedal(m, out))

Out == [PORTB |-> PORTB, OCR0A |-> OCR0A]

\* TRUE when the handler, run on memory m with this sample, executes one of
\* the three "state |= (1<<SP)" statements (lines 82, 88, 95).
Arms(m, pressed) ==
    FSM(EdgeSnapshot(TimerStep([m EXCEPT !.state.SP = FALSE])), pressed).state.SP

\* ---------------------------------------------------------------------
\* Initial state: globals as initialised (lines 45-55), outputs as left by
\* main() before the loop (lines 139-143).
\* ---------------------------------------------------------------------
Init ==
    /\ state = StateZero
    /\ brightness_control = 0
    /\ brighness_up = 1
    /\ pulse_counter = 0
    /\ intr_count = 0
    /\ PORTB = [PB1 |-> 0, PB3 |-> 0, PB4 |-> 0, PB5 |-> 0]
    /\ OCR0A = 0
    /\ phase = "free"
    /\ n = 0
    /\ run = 0
    /\ since_arm = LATCHING_TIME + 1
    /\ fresh = FALSE
    /\ high = 0
    /\ pc = "l149"
    /\ cands = {}
    /\ cycle = -1

\* The interrupt fires once with the given switch sample.
Interrupt(pressed) ==
    LET m == ISR(Mem, pressed) IN
    /\ state' = m.state
    /\ brightness_control' = m.brightness_control
    /\ brighness_up' = m.brighness_up
    /\ pulse_counter' = m.pulse_counter
    /\ intr_count' = m.intr_count
    /\ since_arm' = IF Arms(Mem, pressed) THEN 1
                    ELSE IF since_arm <= LATCHING_TIME THEN since_arm + 1
                    ELSE since_arm
    /\ fresh' = FALSE
    /\ high' = IF ~m.state.SP THEN 0
               ELSE IF high <= LATCHING_TIME THEN high + 1
               ELSE high
    /\ UNCHANGED outvars

\* ---------------------------------------------------------------------
\* The main loop statement by statement: the interrupt may fire between any
\* two of these steps.  state is read at line 149 and again at line 152.
\* ---------------------------------------------------------------------

\* what a pass writes in lines 149-162
PedalOut(out) == <<out.PORTB.PB3, out.PORTB.PB1, out.PORTB.PB5, out.OCR0A>>

\* lines 149-162 rendered from memory m in one piece
Rendering(m) == PedalOut(RenderPedal(m, Out))

PedalLines == {"l150", "l151", "l152", "l153", "l155",
               "l158", "l159", "l160", "l161"}

\* a step of the loop that writes nothing
Jump(to) ==
    /\ pc' = to
    /\ UNCHANGED <<memvars, outvars, phase, n, run, since_arm, high, cycle>>

\* a step of the loop that writes pins or the PWM register
Write(to, portb, ocr) ==
    /\ pc' = to
    /\ PORTB' = portb
    /\ OCR0A' = ocr
    /\ UNCHANGED <<memvars, phase, n, run, since_arm, fresh, high, cands, cycle>>

\* line 149: if ((state >> PO) & 1); a new pass begins
L149 ==
    /\ pc = "l149"
    /\ Jump(IF state.PO THEN "l150" ELSE "l158")
    /\ cands' = {Rendering(Mem)}
    /\ fresh' = TRUE

\* line 150: PORTB |= (1<<PB3) | (1<<PB1)
L150 ==
    /\ pc = "l150"
    /\ Write("l151", [PORTB EXCEPT !.PB3 = 1, !.PB1 = 1], OCR0A)

\* line 151 left out: the active-low relay pin keeps its level
L151_KeepPB5 ==
    /\ pc = "l151"
    /\ Write("l152", PORTB, OCR0A)

\* line 151: PORTB &= ~(1<<PB5)
L151 ==
    /\ pc = "l151"
    /\ Write("l152", [PORTB EXCEPT !.PB5 = 0], OCR0A)

\* line 152: if ((state >> SS) & 1)
L152 ==
    /\ pc = "l152"
    /\ Jump(IF state.SS THEN "l153" ELSE "l155")
    /\ UNCHANGED <<cands, fresh>>

\* line 153: OCR0A = brightness_control
L153 ==
    /\ pc = "l153"
    /\ Write("l165", PORTB, brightness_control % 256)

\* line 155: OCR0A = 255
L155 ==
    /\ pc = "l155"
    /\ Write("l165", PORTB, 255)

\* line 158: OCR0A = 0
L158 ==
    /\ pc = "l158"
    /\ Write("l159", PORTB, 0)

\* line 159: PORTB &= ~(1<<PB3)
L159 ==
    /\ pc = "l159"
    /\ Write("l160", [PORTB EXCEPT !.PB3 = 0], OCR0A)

\* line 160: PORTB &= ~(1<<PB1)
L160 ==
    /\ pc = "l160"
    /\ Write("l161", [PORTB EXCEPT !.PB1 = 0], OCR0A)

\* line 161: PORTB |= (1<<PB5)
L161 ==
    /\ pc = "l161"
    /\ Write("l165", [PORTB EXCEPT !.PB5 = 1], OCR0A)

\* line 165: if (pulse_counter != 0)
L165 ==
    /\ pc = "l165"
    /\ Jump(IF pulse_counter # 0 THEN "l166" ELSE "l168")
    /\ UNCHANGED <<cands, fresh>>

\* line 166: PORTB |= (1<<PB4)
L166 ==
    /\ pc = "l166"
    /\ Write("l149", [PORTB EXCEPT !.PB4 = 1], OCR0A)

\* line 168: PORTB &= ~(1<<PB4)
L168 ==
    /\ pc = "l168"
    /\ Write("l149", [PORTB EXCEPT !.PB4 = 0], OCR0A)

\* ---------------------------------------------------------------------
\* The switch line: which samples the handler reads at line 76
\* ---------------------------------------------------------------------

\* any sample, any number of ticks
Tick ==
    /\ \E pressed \in BOOLEAN : Interrupt(pressed)
    /\ UNCHANGED <<phase, n, run, loopvars>>

\* any sample, at most limit ticks
FreeTick(limit) ==
    /\ phase = "free"
    /\ n < limit
    /\ \E pressed \in BOOLEAN : Interrupt(pressed)
    /\ n' = n + 1
    /\ UNCHANGED <<phase, run, loopvars>>

\* the switch is left alone
QuietTick ==
    /\ \/ phase = "free" /\ n' = 1
       \/ phase = "quiet" /\ n < QuietMax /\ n' = n + 1
    /\ Interrupt(FALSE)
    /\ phase' = "quiet"
    /\ UNCHANGED <<run, loopvars>>

\* the switch is pressed and kept pressed
HoldTick(fromIdle, limit) ==
    /\ \/ /\ phase \in {"free", "quiet"}
          /\ ~state.SS
          /\ fromIdle => ~state.PO
          /\ run' = 1
       \/ /\ phase = "hold"
          /\ run < limit
          /\ run' = run + 1
    /\ Interrupt(TRUE)
    /\ phase' = "hold"
    /\ n' = 0
    /\ UNCHANGED loopvars

\* the switch is let go
ReleaseTick ==
    /\ phase = "hold"
    /\ Interrupt(FALSE)
    /\ phase' = "post"
    /\ n' = 1
    /\ UNCHANGED <<run, loopvars>>

\* and stays released
PostTick ==
    /\ phase = "post"
    /\ n < PostTicks
    /\ Interrupt(FALSE)
    /\ n' = n + 1
    /\ UNCHANGED <<phase, run, loopvars>>

\* the switch is stuck: the same sample on every tick from now on
StuckTick(pressed) ==
    /\ \/ phase = "free"
       \/ phase = "stuck" /\ state.SS = pressed
    /\ Interrupt(pressed)
    /\ phase' = "stuck"
    /\ n' = 0
    /\ UNCHANGED <<run, loopvars>>

\* any sample, at most PreemptTicks ticks, at any point of the main loop
PreemptTick ==
    /\ n < PreemptTicks
    /\ \E pressed \in BOOLEAN : Interrupt(pressed)
    /\ n' = n + 1
    /\ cands' = IF pc \in PedalLines
                THEN cands \cup {PedalOut(RenderPedal(ISR(Mem, state'.SS), Out))}
                ELSE cands
    /\ UNCHANGED <<phase, run, pc, cycle>>

\* the pair (brightness_control, brighness_up) a tick leaves when it turns
\* the wave from rising to falling
AtTop == brightness_control = MAX_BRIGHTNESS /\ brighness_up = 0

\* any sample but a press edge with the pedal off (the edge of lines 79-85)
WaveTick ==
    /\ \/ phase = "free" /\ n' = 1
       \/ phase = "wave" /\ n < WaveTicks /\ n' = n + 1
    /\ \E pressed \in BOOLEAN :
          /\ ~(pressed /\ ~state.SS /\ ~state.PO)
          /\ Interrupt(pressed)
    /\ phase' = "wave"
    /\ cycle' = IF AtTop' THEN 0
                ELSE IF cycle >= 0 /\ cycle < MaxPeriod THEN cycle + 1
                ELSE cycle
    /\ UNCHANGED <<run, pc, cands>>

\* ---------------------------------------------------------------------
\* Specifications
\* ---------------------------------------------------------------------

\* every input sequence
Next == Tick
Spec == Init /\ [][Next]_vars

\* a hold of any length that starts from Idle, then a release
NextIdle ==
    \/ FreeTick(PrefixTicks)
    \/ QuietTick
    \/ HoldTick(TRUE, MaxHold)
    \/ ReleaseTick
    \/ PostTick
SpecIdle == Init /\ [][NextIdle]_vars

\* a hold that starts with the pedal off or latched on, then a release
NextAny ==
    \/ FreeTick(TapTicks)
    \/ QuietTick
    \/ HoldTick(FALSE, AnyHold)
    \/ ReleaseTick
    \/ PostTick
SpecAny == Init /\ [][NextAny]_vars

\* the main loop interrupted by a few ticks
NextPreempt ==
    \/ PreemptTick
    \/ L149 \/ L150 \/ L151 \/ L152 \/ L153 \/ L155
    \/ L158 \/ L159 \/ L160 \/ L161
    \/ L165 \/ L166 \/ L168
SpecPreempt == Init /\ [][NextPreempt]_vars

\* a few free samples, then a stuck switch; the timer interrupt keeps firing
NextStuck ==
    \/ FreeTick(TapTicks)
    \/ StuckTick(TRUE)
    \/ StuckTick(FALSE)
SpecStuck ==
    /\ Init
    /\ [][NextStuck]_vars
    /\ WF_vars(StuckTick(TRUE) \/ StuckTick(FALSE))

\* a few free samples, then ticks that never restart the brightness ramp
NextWave ==
    \/ FreeTick(TapTicks)
    \/ WaveTick
SpecWave == Init /\ [][NextWave]_vars

\* ---------------------------------------------------------------------
\* Properties
\* ---------------------------------------------------------------------

\* ticks since the first pressed sample of the scenario's hold, that tick
\* counted as 1
SincePress == run + (IF phase = "post" THEN n ELSE 0)

\* the scenario's hold is, or was, shorter than the momentary delay
TapCase == phase \in {"hold", "post"} /\ run >= 1 /\ run < MOMENTARY_DELAY

\* C1: tap toggles. From Idle (switch released, pedal off), a press of fewer
\* than MOMENTARY_DELAY pressed samples followed by a release turns the pedal
\* on at the first pressed tick and leaves it on afterwards, release tick
\* included; SP is armed on the first pressed tick only, and is set at the
\* end of exactly the LATCHING_TIME ticks that start with that tick.
C1_TapToggles ==
    TapCase =>
        /\ state.PO
        /\ state.SP <=> (SincePress <= LATCHING_TIME)
        /\ since_arm = (IF SincePress <= LATCHING_TIME THEN SincePress
                        ELSE LATCHING_TIME + 1)

\* C2 as claimed: from Idle, after N >= MOMENTARY_DELAY pressed samples the
\* release tick turns the pedal off and leaves SP set.
C2_HoldReleaseAsClaimed ==
    (phase = "post" /\ n = 1 /\ run >= MOMENTARY_DELAY) =>
        (~state.PO /\ state.SP)

\* C2 amended: from Idle, after N >= MOMENTARY_DELAY + 1 pressed samples the
\* release tick turns the pedal off, arms SP and leaves SP set.
C2_HoldRelease ==
    (phase = "post" /\ n = 1 /\ run >= MOMENTARY_DELAY + 1) =>
        (~state.PO /\ state.SP /\ since_arm = 1)

C2_Witness ==
    /\ phase = "post" /\ n = 1 /\ run = MOMENTARY_DELAY + 1
    /\ ~state.PO /\ state.SP /\ since_arm = 1

\* C3: no-op release. On a tick that samples the switch released and on
\* which TS is clear when the release path tests it (TS is then clear at the
\* end of the tick too), PO keeps its value and SP is not armed.
C3_NoOpRelease ==
    [][(~state'.SS /\ ~state'.TS) =>
          (state'.PO = state.PO /\ ~Arms(Mem, FALSE))]_vars

\* the release edge of a tap: pedal on, timer not expired, nothing armed
C3_Witness ==
    /\ ~state.SS /\ state.LS /\ state.PO /\ ~state.TS
    /\ since_arm > 1

\* C4: pulse width exactness. After every tick that arms SP, SP is set at
\* the end of the LATCHING_TIME ticks that start with the arming tick, and
\* clear once LATCHING_TIME ticks have passed without a new arming.
C4_PulseWidth ==
    /\ since_arm <= LATCHING_TIME => state.SP
    /\ since_arm = LATCHING_TIME + 1 => ~state.SP

\* C5: every change of PO comes with a pulse. On a tick that changes PO, SP
\* is set at the end of the tick.
C5_ChangePulses ==
    [][state'.PO # state.PO => state'.SP]_vars

\* C6 as claimed: from Idle, with the first pressed sample on tick 0 and the
\* switch kept pressed, TS is clear at the end of ticks 0..MOMENTARY_DELAY-1
\* and set at the end of tick MOMENTARY_DELAY, intr_count being 0 then.
C6_ThresholdAsClaimed ==
    phase = "hold" =>
        /\ run - 1 < MOMENTARY_DELAY => ~state.TS
        /\ run - 1 = MOMENTARY_DELAY => (state.TS /\ intr_count = 0)

\* C6 amended: TS is clear at the end of ticks 0..MOMENTARY_DELAY and is set
\* at the end of tick MOMENTARY_DELAY + 1, intr_count being 0 then.
C6_Threshold ==
    phase = "hold" =>
        /\ run - 1 <= MOMENTARY_DELAY => (~state.TS /\ intr_count = run - 1)
        /\ run - 1 = MOMENTARY_DELAY + 1 => (state.TS /\ intr_count = 0)

C6_Witness ==
    /\ phase = "hold" /\ run - 1 = MOMENTARY_DELAY + 1
    /\ state.TS /\ intr_count = 0

\* C7: no re-trigger within one hold. During a continuous press that started
\* from Idle, TS is clear after the first pressed tick, never goes from set
\* to clear, and is set once 2*MOMENTARY_DELAY pressed samples were taken:
\* it goes from clear to set exactly once.
C7_NoRetrigger ==
    [][(phase' = "hold") =>
          /\ run' = 1 => ~state'.TS
          /\ (phase = "hold" /\ state.TS) => state'.TS
          /\ run' >= 2 * MOMENTARY_DELAY => state'.TS]_vars

\* the tick on which intr_count reaches MOMENTARY_DELAY a second time
C7_Witness ==
    /\ phase = "hold" /\ run = 2 * MOMENTARY_DELAY + 3
    /\ state.TS /\ intr_count = 0

\* C8: holding engages momentary mode from any state. Once more than
\* MOMENTARY_DELAY consecutive pressed samples were taken, PO is set at the
\* end of every further pressed tick.
C8_HoldForcesOn ==
    (phase = "hold" /\ run >= MOMENTARY_DELAY + 2) => state.PO

\* C9: bounce is absorbed. When the samples are pressed, released, pressed,
\* the tick of the second pressed sample leaves PO as it was.
C9_BounceAbsorbed ==
    [][(state.LS /\ ~state.SS /\ state'.SS) => state'.PO = state.PO]_vars

\* C10: rendering rule. After a complete main-loop pass (the loop is back
\* at line 149) that no tick interrupted and with no tick since, the pins
\* and the PWM register are this function of PO, SS and brightness_control,
\* and the two relay pins are complementary.
C10_Rendering ==
    (pc = "l149" /\ fresh) =>
        /\ IF state.PO
           THEN /\ PORTB.PB3 = 1 /\ PORTB.PB1 = 1 /\ PORTB.PB5 = 0
                /\ OCR0A = (IF state.SS THEN brightness_control ELSE 255)
           ELSE /\ PORTB.PB3 = 0 /\ PORTB.PB1 = 0 /\ PORTB.PB5 = 1
                /\ OCR0A = 0
        /\ PORTB.PB3 + PORTB.PB5 = 1

\* a pass that renders the shimmer after one that rendered the pedal off
C10_Witness ==
    /\ pc = "l149" /\ fresh /\ state.PO /\ state.SS
    /\ brightness_control > 0 /\ OCR0A = brightness_control
    /\ PORTB.PB3 = 1 /\ PORTB.PB5 = 0

\* C11: the latching pin follows SP. At the end of every tick pulse_counter
\* is non-zero exactly when SP is set, and the pin level a renderer pass
\* writes from that state is 1 exactly when SP is set.
C11_PinFollowsPulse ==
    /\ (pulse_counter # 0) <=> state.SP
    /\ RenderPulse(Mem, Out).PORTB.PB4 = (IF state.SP THEN 1 ELSE 0)

C11_Witness == state.SP /\ pulse_counter = LATCHING_TIME

\* C12 as claimed: brightness_control is within [10, 254] in every
\* reachable state, and brighness_up changes only on a tick that ends with
\* brightness_control at 254 (rising to falling) or 10 (falling to rising).
C12_BoundsAsClaimed ==
    /\ [](brightness_control \in MIN_BRIGHTNESS..MAX_BRIGHTNESS)
    /\ [][brighness_up' # brighness_up =>
            \/ brighness_up = 1 /\ brightness_control' = MAX_BRIGHTNESS
            \/ brighness_up = 0 /\ brightness_control' = MIN_BRIGHTNESS]_vars

\* C12 amended: brightness_control is within [0, 254] in every reachable
\* state, and brighness_up changes only on a tick that ends with
\* brightness_control at 254 (rising to falling) or at 10 or 0 (falling to
\* rising).
C12_Bounds ==
    /\ [](brightness_control \in 0..MAX_BRIGHTNESS)
    /\ [][brighness_up' # brighness_up =>
            \/ brighness_up = 1 /\ brightness_control' = MAX_BRIGHTNESS
            \/ brighness_up = 0 /\ brightness_control' \in {MIN_BRIGHTNESS, 0}]_vars

\* a press edge with the pedal off that found the ramp falling
C12_Witness ==
    /\ brightness_control = 0 /\ brighness_up = 1
    /\ state.SS /\ ~state.LS /\ state.PO

\* the pair the shimmer block computes from a pair
ShimmerPair(b, up) ==
    LET m == Shimmer([Mem EXCEPT !.brightness_control = b, !.brighness_up = up])
    IN <<m.brightness_control, m.brighness_up>>

\* this step is a tick that samples a press edge with the pedal off
PressOnEdge == ~state.SS /\ state'.SS /\ ~state.PO

\* C16 as claimed: on every tick the new (brightness_control, brighness_up)
\* is the triangle step of the old pair, whatever the switch and the pedal.
C16_IndependentAsClaimed ==
    [][<<brightness_control', brighness_up'>> =
          ShimmerPair(brightness_control, brighness_up)]_vars

\* C16 amended: on every tick that is not a press edge with the pedal off
\* the new pair is the triangle step of the old pair; on such a press edge
\* it is the triangle step of (0, old brighness_up).
C16_Independent ==
    [][<<brightness_control', brighness_up'>> =
          ShimmerPair(IF PressOnEdge THEN 0 ELSE brightness_control,
                      brighness_up)]_vars

\* the tick after a press edge that restarted the ramp from above 10
C16_Witness ==
    /\ state.SS /\ ~state.LS /\ state.PO
    /\ brightness_control = 1 /\ intr_count = 0 /\ state.TS = FALSE
    /\ since_arm = 1 /\ pulse_counter = LATCHING_TIME

\* C17 as claimed: intr_count grows only on ticks that sample the switch
\* pressed, and a tick that samples it released ends with intr_count = 0
\* and TS clear.
C17_CounterAsClaimed ==
    [][/\ intr_count' > intr_count => state'.SS
       /\ ~state'.SS => (intr_count' = 0 /\ ~state'.TS)]_vars

\* C17 amended: the counter is free-running. A press edge with the pedal
\* off ends with intr_count = 0 and TS clear; every other tick, pressed or
\* released, adds 1 to intr_count, or wraps it from MOMENTARY_DELAY to 0 and
\* sets TS, and otherwise keeps TS.
C17_Counter ==
    [][IF PressOnEdge
       THEN intr_count' = 0 /\ ~state'.TS
       ELSE /\ intr_count' = (IF intr_count = MOMENTARY_DELAY THEN 0
                              ELSE intr_count + 1)
            /\ state'.TS = (state.TS \/ intr_count = MOMENTARY_DELAY)]_vars

\* released for two ticks, the counter running and TS still set
C17_Witness ==
    /\ ~state.SS /\ ~state.LS /\ state.TS /\ intr_count > 1

\* C18: a long hold ends with the pedal off. After more than
\* MOMENTARY_DELAY consecutive pressed samples, whatever the state the hold
\* started from, PO is clear at the end of the tick that samples the
\* release.
C18_LongHoldEndsOff ==
    (phase = "post" /\ n = 1 /\ run > MOMENTARY_DELAY) => ~state.PO

\* the release of a hold of MOMENTARY_DELAY + 1 samples that started from
\* Idle: the release path has just turned the pedal off
C18_Witness ==
    /\ phase = "post" /\ n = 1 /\ run = MOMENTARY_DELAY + 1
    /\ state.TS /\ state.LS /\ ~state.PO /\ pulse_counter = 1

\* C19: the coil is never over-driven. SP is never set at the end of more
\* than LATCHING_TIME consecutive ticks, and pulse_counter stays within
\* [0, LATCHING_TIME].
C19_NoOverdrive ==
    /\ high <= LATCHING_TIME
    /\ pulse_counter \in 0..LATCHING_TIME

\* SP armed again on the last tick of a pulse
C19_Witness ==
    /\ high = LATCHING_TIME /\ pulse_counter = LATCHING_TIME
    /\ since_arm = 1

\* C20: PO is edge-driven. On a tick whose sample equals the previous
\* sample (SS = LS at the end of the tick) PO keeps its value and SP is not
\* armed, so PO changes only on a tick that ends with SS # LS.
C20_EdgeDriven ==
    [][(state'.SS = state'.LS) =>
          (state'.PO = state.PO /\ ~Arms(Mem, state'.SS))]_vars

\* TS has just been set in the middle of a hold, the pedal still on
C20_Witness ==
    /\ state.SS /\ state.LS /\ state.PO /\ state.TS /\ intr_count = 0

\* brightness_control has reached the triangle wave
InWave == brightness_control >= MIN_BRIGHTNESS

\* C13 as claimed: with no press edge that turns the pedal on, once
\* brightness_control is in the wave the pair (brightness_control,
\* brighness_up) repeats with period exactly 2*(254-10) = 488 ticks (the pair
\* of the top turning tick is met again 488 ticks later and not before), and
\* every tick changes brightness_control by exactly 1.
C13_PeriodAsClaimed ==
    /\ [](cycle < 2 * (MAX_BRIGHTNESS - MIN_BRIGHTNESS))
    /\ [][(cycle >= 0 /\ AtTop') =>
             cycle + 1 = 2 * (MAX_BRIGHTNESS - MIN_BRIGHTNESS)]_vars
    /\ [][InWave => \/ brightness_control' = brightness_control + 1
                    \/ brightness_control' = brightness_control - 1]_vars

\* C13 amended: the pair repeats with period exactly 2*(254-10) + 2 = 490
\* ticks; a tick changes brightness_control by exactly 1, except the two
\* turning ticks of a period, which change brighness_up and keep
\* brightness_control.
C13_Period ==
    /\ [](cycle < 2 * (MAX_BRIGHTNESS - MIN_BRIGHTNESS) + 2)
    /\ [][(cycle >= 0 /\ AtTop') =>
             cycle + 1 = 2 * (MAX_BRIGHTNESS - MIN_BRIGHTNESS) + 2]_vars
    /\ [][InWave =>
            IF brighness_up' # brighness_up
            THEN brightness_control' = brightness_control
            ELSE \/ brightness_control' = brightness_control + 1
                 \/ brightness_control' = brightness_control - 1]_vars

\* the top turning tick, met for the third time
C13_Witness ==
    /\ phase = "wave" /\ n > 1000
    /\ AtTop /\ cycle = 0

\* C14: no torn rendering under preemption. When a pass of the main loop
\* has written its relay pins, static LED and LED brightness (the loop is
\* at line 165), these four outputs are the rendering of the state at the
\* end of one single tick: the tick before the pass began or one of the
\* ticks that interrupted it.
C14_NoTornRendering ==
    pc = "l165" => PedalOut(Out) \in cands

\* C15: a stuck switch freezes the state. With the switch sampled pressed
\* on every tick from some tick on, the system reaches Momentary-Active
\* (SS, TS and PO set) and stays there for ever; with the switch sampled
\* released on every tick, PO does not change after the first such tick.
C15_StuckSwitch ==
    /\ <>[]((phase = "stuck" /\ state.SS) => (state.TS /\ state.PO))
    /\ [][(phase = "stuck" /\ ~state.SS /\ ~state'.SS) =>
             state'.PO = state.PO]_vars
====
